---- MODULE Spec2Model ----
(***************************************************************************)
(* Model of the stock-chart data pipeline of src/charts.py:                *)
(*   fetch_stock_rows_from_alpha_vantage -> filter_by_date ->              *)
(*   group_by_period -> chart series (generate_chart_for_web).             *)
(*                                                                         *)
(* Representation of Python values:                                        *)
(*  - a date string or a bucket label is the sequence of its ASCII codes,  *)
(*    so that Python's string comparison is the lexicographic comparison   *)
(*    of sequences (StrLess) and formatting/parsing are real conversions;  *)
(*  - a datetime is the record of its fields, compared field by field;     *)
(*  - a message text or a dictionary key is the sequence of its words, so  *)
(*    that `sub in text` is a contiguous-subsequence test (Contains);      *)
(*  - a price (a float) is an integer;                                     *)
(*  - a raised exception is a record [exc, msg, detail]: the exception     *)
(*    class, the fixed head of its message, and the value the message      *)
(*    interpolates.                                                        *)
(***************************************************************************)
EXTENDS Integers, Sequences, FiniteSets, TLC

VARIABLES pc, symbol, api_key, period, start_date, end_date, reply,
          function, requests, all_rows, filtered, grouped, chart,
          outcome, examined, flash

vars == <<pc, symbol, api_key, period, start_date, end_date, reply,
          function, requests, all_rows, filtered, grouped, chart,
          outcome, examined, flash>>

\* Longest record list the inputs are drawn from.
MaxRows == 3

----------------------------------------------------------------------------
(* Strings as sequences of ASCII codes *)

\* The ASCII codes of the characters the date formats and labels use.
Ascii == [space |-> 32, dash |-> 45, zero |-> 48, colon |-> 58, W |-> 87]

IsDigit(c) == c >= Ascii.zero /\ c <= Ascii.zero + 9

\* int() of the two-character field s[i..i+1]
Num2(s, i) == (s[i] - Ascii.zero) * 10 + (s[i + 1] - Ascii.zero)

\* int() of the four-character field s[i..i+3]
Num4(s, i) == Num2(s, i) * 100 + Num2(s, i + 2)

\* f"{n:02d}" for 0 <= n <= 99
Fmt02d(n) == <<Ascii.zero + (n \div 10), Ascii.zero + (n % 10)>>

RECURSIVE FmtInt(_)
\* f"{n}" for n >= 0: the decimal digits, no padding
FmtInt(n) ==
    IF n < 10 THEN <<Ascii.zero + n>>
    ELSE FmtInt(n \div 10) \o <<Ascii.zero + (n % 10)>>

RECURSIVE StrLess(_, _)
\* Python's a < b on strings: lexicographic on the code points, a proper
\* prefix being smaller.
StrLess(a, b) ==
    IF b = <<>> THEN FALSE
    ELSE IF a = <<>> THEN TRUE
    ELSE IF a[1] # b[1] THEN a[1] < b[1]
    ELSE StrLess(Tail(a), Tail(b))

StrLeq(a, b) == a = b \/ StrLess(a, b)

----------------------------------------------------------------------------
(* datetime *)

IsLeap(y) == (y % 4 = 0) /\ ((y % 100 # 0) \/ (y % 400 = 0))

DaysInMonth(y, m) ==
    IF m = 2 THEN (IF IsLeap(y) THEN 29 ELSE 28)
    ELSE IF m \in {4, 6, 9, 11} THEN 30 ELSE 31

RECURSIVE DaysBeforeMonth(_, _)
DaysBeforeMonth(y, m) ==
    IF m = 1 THEN 0 ELSE DaysBeforeMonth(y, m - 1) + DaysInMonth(y, m - 1)

DaysBeforeYear(y) ==
    (y - 1) * 365 + ((y - 1) \div 4) - ((y - 1) \div 100) + ((y - 1) \div 400)

\* datetime.toordinal(): 0001-01-01 is day 1
Ymd2Ord(y, m, d) == DaysBeforeYear(y) + DaysBeforeMonth(y, m) + d

\* The result of a failed strptime (ValueError)
NoDate == [ok |-> FALSE, year |-> 0, month |-> 0, day |-> 0,
           hour |-> 0, minute |-> 0, second |-> 0]

MkDate(y, m, d, hh, mi, ss) ==
    [ok |-> TRUE, year |-> y, month |-> m, day |-> d,
     hour |-> hh, minute |-> mi, second |-> ss]

\* datetime(y, m, d, hh, mi, ss), a ValueError when a field is out of range
DateTimeOf(y, m, d, hh, mi, ss) ==
    IF /\ y >= 1 /\ m >= 1 /\ m <= 12
       /\ d >= 1 /\ d <= DaysInMonth(y, IF m >= 1 /\ m <= 12 THEN m ELSE 1)
       /\ hh <= 23 /\ mi <= 59 /\ ss <= 59
    THEN MkDate(y, m, d, hh, mi, ss)
    ELSE NoDate

\* a < b on two datetimes
DtLess(a, b) ==
    LET ka == <<a.year, a.month, a.day, a.hour, a.minute, a.second>>
        kb == <<b.year, b.month, b.day, b.hour, b.minute, b.second>>
    IN \E i \in 1..6 : ka[i] < kb[i] /\ \A j \in 1..(i - 1) : ka[j] = kb[j]

DtLeq(a, b) == a = b \/ DtLess(a, b)

\* s has the shape dddd-dd-dd at its first ten characters
DateShape(s) ==
    /\ Len(s) >= 10
    /\ \A i \in {1, 2, 3, 4, 6, 7, 9, 10} : IsDigit(s[i])
    /\ s[5] = Ascii.dash /\ s[8] = Ascii.dash

\* s has the shape " dd:dd:dd" at characters 11..19
TimeShape(s) ==
    /\ Len(s) = 19
    /\ s[11] = Ascii.space
    /\ \A i \in {12, 13, 15, 16, 18, 19} : IsDigit(s[i])
    /\ s[14] = Ascii.colon /\ s[17] = Ascii.colon

\* datetime.strptime(s, "%Y-%m-%d") on the zero-padded fixed-width strings
\* the provider and the front ends produce; NoDate is the ValueError.
StrpDate(s) ==
    IF Len(s) = 10 /\ DateShape(s)
    THEN DateTimeOf(Num4(s, 1), Num2(s, 6), Num2(s, 9), 0, 0, 0)
    ELSE NoDate

\* datetime.strptime(s, "%Y-%m-%d %H:%M:%S") on the same strings
StrpDateTime(s) ==
    IF DateShape(s) /\ TimeShape(s)
    THEN DateTimeOf(Num4(s, 1), Num2(s, 6), Num2(s, 9),
                    Num2(s, 12), Num2(s, 15), Num2(s, 18))
    ELSE NoDate

\* parse_date: the date format first, the date-time format on its failure
parse_date(date_text) ==
    IF StrpDate(date_text).ok THEN StrpDate(date_text)
    ELSE StrpDateTime(date_text)

----------------------------------------------------------------------------
(* Exceptions *)

NoError == [exc |-> "none", msg |-> "", detail |-> <<>>]

Raise(e, m, d) == [exc |-> e, msg |-> m, detail |-> d]

----------------------------------------------------------------------------
(* Sorting *)

RECURSIVE InsertByDate(_, _)
\* x placed after every element whose date is <= its own
InsertByDate(x, s) ==
    IF s = <<>> THEN <<x>>
    ELSE IF StrLess(x.date, s[1].date) THEN <<x>> \o s
    ELSE <<s[1]>> \o InsertByDate(x, Tail(s))

RECURSIVE SortByDate(_)
\* list.sort(key=lambda r: r["date"]) / sorted(..): stable, ascending on the
\* date string
SortByDate(s) ==
    IF s = <<>> THEN <<>>
    ELSE InsertByDate(s[Len(s)], SortByDate(SubSeq(s, 1, Len(s) - 1)))

----------------------------------------------------------------------------
(* filter_by_date *)

RECURSIVE FirstBad(_, _)
\* index of the first row from i on whose date does not parse, 0 if none
FirstBad(rows, i) ==
    IF i > Len(rows) THEN 0
    ELSE IF ~parse_date(rows[i].date).ok THEN i
    ELSE FirstBad(rows, i + 1)

\* the test with its upper bound forgotten
InWindowNoEnd(start, date_obj, end) == DtLeq(start, date_obj)

\* the test of the loop: start <= date_obj <= end
InWindow(start, date_obj, end) == DtLeq(start, date_obj) /\ DtLeq(date_obj, end)

RECURSIVE KeepInRange(_, _, _)
\* the loop of filter_by_date: the rows that pass the test, in input order
KeepInRange(rows, start, end) ==
    IF rows = <<>> THEN <<>>
    ELSE LET rest == KeepInRange(Tail(rows), start, end)
         IN IF InWindow(start, parse_date(rows[1].date), end)
            THEN <<rows[1]>> \o rest
            ELSE rest

\* filter_by_date with the range validated after the loop instead of before it
filter_by_date_late(rows, s, e) ==
    LET start == parse_date(s)
        end == parse_date(e)
    IN IF ~start.ok \/ ~end.ok
       THEN [err |-> Raise("ValueError", "Invalid date format", <<>>),
             rows |-> <<>>, examined |-> 0]
       ELSE IF FirstBad(rows, 1) # 0
       THEN [err |-> Raise("ValueError", "strptime", <<>>),
             rows |-> <<>>, examined |-> FirstBad(rows, 1)]
       ELSE IF DtLess(end, start)
       THEN [err |-> Raise("ValueError",
                           "Start date cannot be after end date", <<s, e>>),
             rows |-> <<>>, examined |-> Len(rows)]
       ELSE [err |-> Raise("NoDataAvailableError",
                           "No data available between", <<s, e>>),
             rows |-> <<>>, examined |-> Len(rows)]

\* filter_by_date(rows, start_date, end_date): [err, rows, examined] where
\* examined counts the rows whose date the loop parsed
filter_by_date(rows, s, e) ==
    LET start == parse_date(s)
        end == parse_date(e)
    IN IF ~start.ok \/ ~end.ok
       THEN [err |-> Raise("ValueError", "Invalid date format", <<>>),
             rows |-> <<>>, examined |-> 0]
       ELSE IF DtLess(end, start)
       THEN [err |-> Raise("ValueError",
                           "Start date cannot be after end date", <<s, e>>),
             rows |-> <<>>, examined |-> 0]
       ELSE IF FirstBad(rows, 1) # 0
       THEN [err |-> Raise("ValueError", "strptime", <<>>),
             rows |-> <<>>, examined |-> FirstBad(rows, 1)]
       ELSE LET filtered_rows == KeepInRange(rows, start, end)
            IN IF filtered_rows = <<>>
               THEN [err |-> Raise("NoDataAvailableError",
                                   "No data available between", <<s, e>>),
                     rows |-> <<>>, examined |-> Len(rows)]
               ELSE [err |-> NoError, rows |-> SortByDate(filtered_rows),
                     examined |-> Len(rows)]

----------------------------------------------------------------------------
(* group_by_period *)

\* datetime._isoweek1monday(year): ordinal of the Monday of ISO week 1
IsoWeek1Monday(year) ==
    LET firstday == Ymd2Ord(year, 1, 1)
        firstweekday == (firstday + 6) % 7
        week1monday == firstday - firstweekday
    IN IF firstweekday > 3 THEN week1monday + 7 ELSE week1monday

\* date_obj.isocalendar(): <<ISO year, ISO week, ISO weekday>>
isocalendar(dt) ==
    LET today == Ymd2Ord(dt.year, dt.month, dt.day)
        w0 == (today - IsoWeek1Monday(dt.year)) \div 7
        d0 == (today - IsoWeek1Monday(dt.year)) % 7
    IN IF w0 < 0
       THEN <<dt.year - 1,
              ((today - IsoWeek1Monday(dt.year - 1)) \div 7) + 1,
              ((today - IsoWeek1Monday(dt.year - 1)) % 7) + 1>>
       ELSE IF w0 >= 52 /\ today >= IsoWeek1Monday(dt.year + 1)
       THEN <<dt.year + 1, 1, d0 + 1>>
       ELSE <<dt.year, w0 + 1, d0 + 1>>

\* the weekly label built from the calendar year instead of the ISO year
group_label_calendar_year(row, p) ==
    LET date_obj == parse_date(row.date)
    IN IF p = "weekly"
       THEN FmtInt(date_obj.year) \o <<Ascii.dash, Ascii.W>>
            \o Fmt02d(isocalendar(date_obj)[2])
       ELSE IF p = "monthly"
       THEN FmtInt(date_obj.year) \o <<Ascii.dash>> \o Fmt02d(date_obj.month)
       ELSE row.date

\* the label of a row's group (the row's date parses)
group_label(row, p) ==
    LET date_obj == parse_date(row.date)
    IN IF p = "weekly"
       THEN FmtInt(isocalendar(date_obj)[1]) \o <<Ascii.dash, Ascii.W>>
            \o Fmt02d(isocalendar(date_obj)[2])
       ELSE IF p = "monthly"
       THEN FmtInt(date_obj.year) \o <<Ascii.dash>> \o Fmt02d(date_obj.month)
       ELSE row.date

RECURSIVE GroupLabels(_, _)
\* the keys of grouped_data in insertion order: each label once, at its
\* first occurrence
GroupLabels(rows, p) ==
    IF rows = <<>> THEN <<>>
    ELSE LET before == GroupLabels(SubSeq(rows, 1, Len(rows) - 1), p)
             label == group_label(rows[Len(rows)], p)
         IN IF \E i \in 1..Len(before) : before[i] = label
            THEN before
            ELSE Append(before, label)

RECURSIVE RowsInGroup(_, _, _)
\* grouped_data[label]: the rows of that label in input order
RowsInGroup(rows, p, label) ==
    IF rows = <<>> THEN <<>>
    ELSE IF group_label(rows[1], p) = label
    THEN <<rows[1]>> \o RowsInGroup(Tail(rows), p, label)
    ELSE RowsInGroup(Tail(rows), p, label)

\* the high of the earliest member taken for the group's high
MaxHighOfFirst(rs) == rs[1].high

\* max(r["high"] for r in rows_in_group)
MaxHigh(rs) ==
    CHOOSE h \in {rs[i].high : i \in 1..Len(rs)} :
        \A i \in 1..Len(rs) : rs[i].high <= h

\* min(r["low"] for r in rows_in_group)
MinLow(rs) ==
    CHOOSE l \in {rs[i].low : i \in 1..Len(rs)} :
        \A i \in 1..Len(rs) : l <= rs[i].low

\* the members left in input order
SortGroupSkipped(rows_in_group) == rows_in_group

\* the members of one group in the order the summary reads them
SortGroup(rows_in_group) == SortByDate(rows_in_group)

\* the summary record of one group
Combine(label, rows_in_group) ==
    LET rs == SortGroup(rows_in_group)
    IN [date |-> label,
        open |-> rs[1].open,
        high |-> MaxHigh(rs),
        low |-> MinLow(rs),
        close |-> rs[Len(rs)].close]

\* the summary rows left in the order the groups were created
SortGroupedSkipped(grouped_rows) == grouped_rows

\* the final ordering of the summary rows
SortGrouped(grouped_rows) == SortByDate(grouped_rows)

\* group_by_period(data_rows, period): [err, rows]
group_by_period(data_rows, p) ==
    IF p \in {"intraday", "daily"}
    THEN [err |-> NoError, rows |-> SortByDate(data_rows)]
    ELSE IF FirstBad(data_rows, 1) # 0
    THEN [err |-> Raise("ValueError", "strptime", <<>>), rows |-> <<>>]
    ELSE LET labels == GroupLabels(data_rows, p)
             grouped_rows ==
                 [i \in 1..Len(labels) |->
                     Combine(labels[i], RowsInGroup(data_rows, p, labels[i]))]
         IN [err |-> NoError, rows |-> SortGrouped(grouped_rows)]

----------------------------------------------------------------------------
(* Texts as sequences of words *)

\* str.lower() on one word of the texts and resolutions of the model
lower_word(w) ==
    CASE w = "Weekly" -> "weekly"
      [] w = "DAILY" -> "daily"
      [] w = "Monthly" -> "monthly"
      [] w = "Rate" -> "rate"
      [] w = "Limit" -> "limit"
      [] w = "Invalid" -> "invalid"
      [] w = "API" -> "api"
      [] w = "Our" -> "our"
      [] w = "Thank" -> "thank"
      [] OTHER -> w

\* text.lower()
lower_text(text) == [i \in 1..Len(text) |-> lower_word(text[i])]

\* `sub in text`
Contains(sub, text) ==
    \E i \in 1..(Len(text) - Len(sub) + 1) :
        SubSeq(text, i, i + Len(sub) - 1) = sub

\* the keys of a dict in insertion order; a dict is a sequence of items
\* [key, text, series] with distinct keys
Keys(data) == [i \in 1..Len(data) |-> data[i].key]

\* `key in data`
HasKey(data, key) == \E i \in 1..Len(data) : data[i].key = key

\* data[key]
Item(data, key) == data[CHOOSE i \in 1..Len(data) : data[i].key = key]

----------------------------------------------------------------------------
(* extract_time_series_from_response *)

\* index of the first key that contains "Time Series", 0 if none
FirstSeriesKey(data) ==
    IF \E i \in 1..Len(data) : Contains(<<"Time", "Series">>, data[i].key)
    THEN CHOOSE i \in 1..Len(data) :
            /\ Contains(<<"Time", "Series">>, data[i].key)
            /\ \A j \in 1..(i - 1) : ~Contains(<<"Time", "Series">>, data[j].key)
    ELSE 0

\* the test with only its second phrase
IsInvalidSymbolTextNarrow(error_msg) ==
    Contains(<<"Invalid", "stock", "symbol">>, error_msg)

\* the test of the "Error Message" branch for an invalid symbol
IsInvalidSymbolText(error_msg) ==
    \/ Contains(<<"Invalid", "API", "call">>, error_msg)
    \/ Contains(<<"Invalid", "stock", "symbol">>, error_msg)

\* the test of the "Note" branch for a rate limit
IsRateLimitText(note_msg) ==
    \/ Contains(<<"API", "call", "frequency">>, note_msg)
    \/ Contains(<<"rate", "limit">>, lower_text(note_msg))

\* the last raise of the function: no known key was found
UnexpectedFormat(data) ==
    Raise("RuntimeError", "Unexpected response format. Received keys", Keys(data))

\* extract_time_series_from_response(data): [err, key, time_series]
extract_time_series_from_response(data) ==
    IF FirstSeriesKey(data) # 0
    THEN [err |-> NoError, key |-> data[FirstSeriesKey(data)].key,
          time_series |-> data[FirstSeriesKey(data)].series]
    ELSE [key |-> <<>>, time_series |-> <<>>, err |->
          IF HasKey(data, <<"Error", "Message">>)
          THEN IF IsInvalidSymbolText(Item(data, <<"Error", "Message">>).text)
               THEN Raise("StockSymbolNotFoundError", "Stock symbol not found",
                          Item(data, <<"Error", "Message">>).text)
               ELSE Raise("RuntimeError", "API error",
                          Item(data, <<"Error", "Message">>).text)
          ELSE IF HasKey(data, <<"Note">>)
          THEN IF IsRateLimitText(Item(data, <<"Note">>).text)
               THEN Raise("APIRateLimitError", "API rate limit exceeded",
                          Item(data, <<"Note">>).text)
               ELSE Raise("RuntimeError", "API note", Item(data, <<"Note">>).text)
          ELSE IF HasKey(data, <<"Information">>)
          THEN Raise("RuntimeError", "API info",
                     Item(data, <<"Information">>).text)
          ELSE UnexpectedFormat(data)]

----------------------------------------------------------------------------
(* alpha_function_for_period *)

\* alpha_function_for_period(period, intraday_interval): [name, extra]
alpha_function_for_period(p, intraday_interval) ==
    LET q == lower_word(p)
    IN IF q = "intraday"
       THEN [name |-> "TIME_SERIES_INTRADAY",
             extra |-> <<intraday_interval, "true">>]
       ELSE IF q = "daily" THEN [name |-> "TIME_SERIES_DAILY", extra |-> <<>>]
       ELSE IF q = "weekly" THEN [name |-> "TIME_SERIES_WEEKLY", extra |-> <<>>]
       ELSE IF q = "monthly" THEN [name |-> "TIME_SERIES_MONTHLY", extra |-> <<>>]
       ELSE [name |-> "TIME_SERIES_DAILY", extra |-> <<>>]

----------------------------------------------------------------------------
(* fetch_stock_rows_from_alpha_vantage *)

\* symbol.strip() on the symbols of the model
strip(s) ==
    CASE s = " " -> ""
      [] s = " aapl " -> "aapl"
      [] OTHER -> s

\* symbol.upper() on the symbols of the model
upper(s) ==
    CASE s = "aapl" -> "AAPL"
      [] s = " aapl " -> " AAPL "
      [] OTHER -> s

\* The four price fields of the provider's entries
PriceFields == {"1. open", "2. high", "3. low", "4. close"}

\* an entry's values lack a field, or hold a text float() rejects: a field
\* value is <<n>> for the text of the number n and <<>> for any other text
EntryBad(values) ==
    \/ ~(PriceFields \subseteq DOMAIN values)
    \/ \E f \in PriceFields : values[f] = <<>>

\* the row built from one (date_str, values) item
RowOf(entry) ==
    [date |-> entry.date,
     open |-> entry.values["1. open"][1],
     high |-> entry.values["2. high"][1],
     low |-> entry.values["3. low"][1],
     close |-> entry.values["4. close"][1]]

\* the checks with the one of the credential left out
local_checks_no_key(sym, key) ==
    IF sym = "" \/ strip(sym) = ""
    THEN Raise("ValueError", "Stock symbol cannot be empty", <<>>)
    ELSE NoError

\* the checks made before the request is built: the symbol, then the
\* credential read from the environment
local_checks(sym, key) ==
    IF sym = "" \/ strip(sym) = ""
    THEN Raise("ValueError", "Stock symbol cannot be empty", <<>>)
    ELSE IF key = ""
    THEN Raise("ValueError",
               "ALPHA_VANTAGE_API_KEY environment variable is not set", <<>>)
    ELSE NoError

\* fetch_stock_rows_from_alpha_vantage(symbol, period) with the environment's
\* key and the provider's reply r = [transport, json, data]:
\* [err, rows, requests, function]
fetch_stock_rows_from_alpha_vantage(sym, p, key, r) ==
    LET none == [name |-> "", extra |-> <<>>]
        fn == alpha_function_for_period(p, "60min")
        ex == extract_time_series_from_response(r.data)
        fail(e, n, f) == [err |-> e, rows |-> <<>>, requests |-> n, function |-> f]
    IN IF local_checks(sym, key).exc # "none"
       THEN fail(local_checks(sym, key), 0, none)
       ELSE IF r.transport = "Timeout"
       THEN fail(Raise("RuntimeError", "Request timed out", <<>>), 1, fn)
       ELSE IF r.transport = "ConnectionError"
       THEN fail(Raise("RuntimeError", "Failed to connect", <<>>), 1, fn)
       ELSE IF r.transport = "HTTPError"
       THEN fail(Raise("RuntimeError", "HTTP error occurred", <<>>), 1, fn)
       ELSE IF r.transport = "RequestException"
       THEN fail(Raise("RuntimeError", "Error connecting to API", <<>>), 1, fn)
       ELSE IF ~r.json
       THEN fail(Raise("RuntimeError", "Failed to parse API response as JSON",
                       <<>>), 1, fn)
       ELSE IF ex.err.exc # "none"
       THEN fail(ex.err, 1, fn)
       ELSE IF Len(ex.time_series) = 0
       THEN fail(Raise("NoDataAvailableError", "No data available for symbol",
                       <<upper(strip(sym)), p>>), 1, fn)
       ELSE IF \E i \in 1..Len(ex.time_series) : EntryBad(ex.time_series[i].values)
       THEN fail(Raise("RuntimeError", "Unexpected data format in API response",
                       <<>>), 1, fn)
       ELSE [err |-> NoError,
             rows |-> [i \in 1..Len(ex.time_series) |-> RowOf(ex.time_series[i])],
             requests |-> 1, function |-> fn]

----------------------------------------------------------------------------
(* The chart series of generate_chart_for_web / render_chart *)

NoChart == [x_labels |-> <<>>, series |-> <<>>]

\* the series built from the rows sorted once more by label
chart_series_resorted(rows) ==
    LET rs == SortByDate(rows)
    IN [x_labels |-> [i \in 1..Len(rs) |-> rs[i].date],
        series |-> << [label |-> "Open", values |-> [i \in 1..Len(rs) |-> rs[i].open]],
                      [label |-> "High", values |-> [i \in 1..Len(rs) |-> rs[i].high]],
                      [label |-> "Low", values |-> [i \in 1..Len(rs) |-> rs[i].low]],
                      [label |-> "Close", values |-> [i \in 1..Len(rs) |-> rs[i].close]] >>]

\* x_labels and the four chart.add(...) calls, in the order they are made
chart_series(rows) ==
    [x_labels |-> [i \in 1..Len(rows) |-> rows[i].date],
     series |-> << [label |-> "Open", values |-> [i \in 1..Len(rows) |-> rows[i].open]],
                   [label |-> "High", values |-> [i \in 1..Len(rows) |-> rows[i].high]],
                   [label |-> "Low", values |-> [i \in 1..Len(rows) |-> rows[i].low]],
                   [label |-> "Close", values |-> [i \in 1..Len(rows) |-> rows[i].close]] >>]

----------------------------------------------------------------------------
(* Inputs *)

\* "YYYY-MM-DD"
DateStr(y, m, d) ==
    FmtInt(y) \o <<Ascii.dash>> \o Fmt02d(m) \o <<Ascii.dash>> \o Fmt02d(d)

\* "YYYY-MM-DD HH:MM:SS"
DateTimeStr(y, m, d, hh, mi, ss) ==
    DateStr(y, m, d) \o <<Ascii.space>> \o Fmt02d(hh) \o <<Ascii.colon>>
    \o Fmt02d(mi) \o <<Ascii.colon>> \o Fmt02d(ss)

\* Record dates offered to filter_by_date: daily dates around a year end, an
\* intraday record, a midnight intraday record, and a date that does not parse
FilterDates ==
    { DateStr(2024, 12, 27), DateStr(2024, 12, 30), DateStr(2025, 1, 2),
      DateTimeStr(2025, 1, 2, 10, 0, 0), DateTimeStr(2024, 12, 30, 0, 0, 0),
      DateStr(2025, 13, 1) }

\* Window bounds offered to filter_by_date
BoundStrings ==
    { DateStr(2024, 12, 27), DateStr(2024, 12, 30), DateStr(2025, 1, 2),
      DateTimeStr(2025, 1, 2, 10, 0, 0), DateStr(2025, 2, 30) }

\* Record dates offered to group_by_period: all parse; 2024-12-30, 2024-12-31
\* and 2025-01-02 share ISO week 2025-W01 across two months and two years
GroupDates ==
    { DateStr(2024, 12, 27), DateStr(2024, 12, 30), DateStr(2024, 12, 31),
      DateStr(2025, 1, 2), DateTimeStr(2025, 1, 2, 10, 0, 0) }

\* <<open, high, low, close>> of the rows offered
PriceQuads == { <<2, 3, 1, 2>>, <<3, 5, 2, 4>> }

MkRow(d, q) == [date |-> d, open |-> q[1], high |-> q[2], low |-> q[3], close |-> q[4]]

\* the lists of at most MaxRows rows with distinct dates from `dates`, in
\* every order (the provider's time series is a dict: its dates are distinct)
RowLists(dates, quads) ==
    UNION { { [i \in 1..n |-> MkRow(ds[i], qs[i])] :
                ds \in { s \in [1..n -> dates] :
                           \A i, j \in 1..n : i # j => s[i] # s[j] },
                qs \in [1..n -> quads] } : n \in 0..MaxRows }

\* Resolution strings: the four known ones and unrecognized ones
Periods == {"intraday", "daily", "weekly", "monthly", "Weekly", "yearly"}

Symbols == {"", " ", "aapl", " aapl "}

ApiKeys == {"", "KEY"}

NumText(n) == <<n>>

GoodValues(q) ==
    [f \in PriceFields |->
        IF f = "1. open" THEN NumText(q[1])
        ELSE IF f = "2. high" THEN NumText(q[2])
        ELSE IF f = "3. low" THEN NumText(q[3])
        ELSE NumText(q[4])]

\* an entry without its "4. close" field
ShortValues(q) == [f \in PriceFields \ {"4. close"} |-> GoodValues(q)[f]]

\* an entry whose "2. high" is not a number
TextValues(q) == [GoodValues(q) EXCEPT !["2. high"] = <<>>]

Entry(d, v) == [date |-> d, values |-> v]

\* Time series payloads: empty, well formed (newest first, as the provider
\* sends them), and malformed
SeriesGood ==
    << Entry(DateStr(2025, 1, 2), GoodValues(<<3, 5, 2, 4>>)),
       Entry(DateStr(2024, 12, 30), GoodValues(<<2, 3, 1, 2>>)),
       Entry(DateStr(2024, 12, 27), GoodValues(<<4, 4, 3, 3>>)) >>

SeriesIntraday ==
    << Entry(DateTimeStr(2025, 1, 2, 10, 0, 0), GoodValues(<<3, 5, 2, 4>>)),
       Entry(DateTimeStr(2024, 12, 30, 0, 0, 0), GoodValues(<<2, 3, 1, 2>>)) >>

SeriesShort == << Entry(DateStr(2025, 1, 2), ShortValues(<<3, 5, 2, 4>>)) >>

SeriesText ==
    << Entry(DateStr(2025, 1, 2), GoodValues(<<3, 5, 2, 4>>)),
       Entry(DateStr(2024, 12, 30), TextValues(<<2, 3, 1, 2>>)) >>

SeriesSet == { <<>>, SeriesGood, SeriesIntraday, SeriesShort, SeriesText }

KeyDaily == <<"Time", "Series", "(Daily)">>
KeyWeekly == <<"Weekly", "Time", "Series">>
KeyMeta == <<"Meta", "Data">>
KeyError == <<"Error", "Message">>
KeyNote == <<"Note">>
KeyInfo == <<"Information">>

SeriesItem(k, s) == [key |-> k, text |-> <<>>, series |-> s]
TextItem(k, x) == [key |-> k, text |-> x, series |-> <<>>]

ErrorTexts ==
    { <<"Invalid", "API", "call", ".", "Please", "retry">>,
      <<"Invalid", "stock", "symbol">>,
      <<"invalid", "stock", "symbol">>,
      <<"the", "parameter", "apikey", "is", "invalid">> }

NoteTexts ==
    { <<"Our", "standard", "API", "call", "frequency", "is", "5", "calls">>,
      <<"API", "Rate", "Limit", "reached">>,
      <<"Please", "consider", "premium">> }

InfoTexts ==
    { <<"Thank", "you", "!", "Our", "API", "rate", "limit", "is", "25", "requests">>,
      <<"demo", "key">> }

\* Response bodies: dicts as item sequences in insertion order
DataSet ==
    { <<>>, <<TextItem(KeyMeta, <<>>)>>, <<TextItem(<<"foo">>, <<>>), TextItem(KeyMeta, <<>>)>> }
    \cup { <<SeriesItem(k, s)>> : k \in {KeyDaily, KeyWeekly}, s \in SeriesSet }
    \cup { <<TextItem(KeyMeta, <<>>), SeriesItem(KeyDaily, s)>> : s \in SeriesSet }
    \cup { <<TextItem(KeyError, x)>> : x \in ErrorTexts }
    \cup { <<TextItem(KeyNote, x)>> : x \in NoteTexts }
    \cup { <<TextItem(KeyInfo, x)>> : x \in InfoTexts }
    \cup { <<TextItem(KeyNote, x), TextItem(KeyError, y)>> : x \in NoteTexts, y \in ErrorTexts }
    \cup { <<TextItem(KeyInfo, x), TextItem(KeyNote, y)>> : x \in InfoTexts, y \in NoteTexts }
    \cup { <<TextItem(KeyNote, x), SeriesItem(KeyDaily, SeriesGood)>> : x \in NoteTexts }

OkReply(d) == [transport |-> "ok", json |-> TRUE, data |-> d]

\* What the one GET can come back with
Replies ==
    { [transport |-> x, json |-> FALSE, data |-> <<>>] :
        x \in {"Timeout", "ConnectionError", "HTTPError", "RequestException", "ok"} }
    \cup { OkReply(d) : d \in DataSet }

\* The replies a whole run is followed through
RunReplies ==
    { [transport |-> "Timeout", json |-> FALSE, data |-> <<>>],
      OkReply(<<TextItem(KeyError, <<"Invalid", "stock", "symbol">>)>>),
      OkReply(<<SeriesItem(KeyDaily, <<>>)>>),
      OkReply(<<TextItem(KeyMeta, <<>>), SeriesItem(KeyDaily, SeriesGood)>>),
      OkReply(<<SeriesItem(KeyDaily, SeriesIntraday)>>),
      OkReply(<<SeriesItem(KeyDaily, SeriesText)>>) }

RunBounds == { DateStr(2024, 12, 27), DateStr(2024, 12, 30), DateStr(2025, 1, 2) }

----------------------------------------------------------------------------
(* The run: generate_chart_for_web *)

\* no message flashed yet
NoFlash == [category |-> "", msg |-> "", text |-> ""]

Idle ==
    /\ flash = NoFlash
    /\ function = [name |-> "", extra |-> <<>>]
    /\ requests = 0
    /\ filtered = <<>>
    /\ grouped = <<>>
    /\ chart = NoChart
    /\ outcome = NoError
    /\ examined = 0

\* A whole run, from the call of generate_chart_for_web
Init ==
    /\ pc = "fetch"
    /\ symbol \in {"", "aapl"}
    /\ api_key \in ApiKeys
    /\ period \in Periods
    /\ start_date \in RunBounds
    /\ end_date \in RunBounds
    /\ reply \in RunReplies
    /\ all_rows = <<>>
    /\ Idle

\* all_rows = fetch_stock_rows_from_alpha_vantage(symbol, period, ...)
Fetch ==
    /\ pc = "fetch"
    /\ LET r == fetch_stock_rows_from_alpha_vantage(symbol, period, api_key, reply)
       IN /\ requests' = requests + r.requests
          /\ function' = r.function
          /\ all_rows' = r.rows
          /\ outcome' = r.err
          /\ pc' = IF r.err.exc = "none" THEN "filter" ELSE "failed"
    /\ UNCHANGED <<symbol, api_key, period, start_date, end_date, reply,
                   filtered, grouped, chart, examined, flash>>

\* the filter's failure swallowed: the run goes on with no rows
FilterSwallows ==
    /\ pc = "filter"
    /\ LET r == filter_by_date(all_rows, start_date, end_date)
       IN /\ filtered' = r.rows
          /\ examined' = r.examined
          /\ outcome' = NoError
          /\ pc' = "group"
    /\ UNCHANGED <<symbol, api_key, period, start_date, end_date, reply,
                   function, requests, all_rows, grouped, chart, flash>>

\* filtered = filter_by_date(all_rows, start_date, end_date)
Filter ==
    /\ pc = "filter"
    /\ LET r == filter_by_date(all_rows, start_date, end_date)
       IN /\ filtered' = r.rows
          /\ examined' = r.examined
          /\ outcome' = r.err
          /\ pc' = IF r.err.exc = "none" THEN "group" ELSE "failed"
    /\ UNCHANGED <<symbol, api_key, period, start_date, end_date, reply,
                   function, requests, all_rows, grouped, chart, flash>>

\* the aggregation sorting the caller's list in place on its way
GroupSortsInPlace ==
    /\ pc = "group"
    /\ LET r == group_by_period(filtered, period)
       IN /\ grouped' = r.rows
          /\ outcome' = r.err
          /\ pc' = IF r.err.exc = "none" THEN "render" ELSE "failed"
    /\ filtered' = SortByDate(filtered)
    /\ UNCHANGED <<symbol, api_key, period, start_date, end_date, reply,
                   function, requests, all_rows, chart, examined, flash>>

\* grouped = group_by_period(filtered, period)
Group ==
    /\ pc = "group"
    /\ LET r == group_by_period(filtered, period)
       IN /\ grouped' = r.rows
          /\ outcome' = r.err
          /\ pc' = IF r.err.exc = "none" THEN "render" ELSE "failed"
    /\ UNCHANGED <<symbol, api_key, period, start_date, end_date, reply,
                   function, requests, all_rows, filtered, chart, examined,
                   flash>>

\* the chart is given its x labels and its four series
Render ==
    /\ pc = "render"
    /\ chart' = chart_series(grouped)
    /\ pc' = "done"
    /\ UNCHANGED <<symbol, api_key, period, start_date, end_date, reply,
                   function, requests, all_rows, filtered, grouped, outcome,
                   examined, flash>>

Next == Fetch \/ Filter \/ Group \/ Render

Spec == Init /\ [][Next]_vars

\* filter_by_date alone, on every record list and window offered
InitFilter ==
    /\ pc = "filter"
    /\ symbol = "aapl"
    /\ api_key = "KEY"
    /\ period = "daily"
    /\ start_date \in BoundStrings
    /\ end_date \in BoundStrings
    /\ reply = OkReply(<<>>)
    /\ all_rows \in RowLists(FilterDates, {<<2, 3, 1, 2>>})
    /\ Idle

SpecFilter == InitFilter /\ [][Filter]_vars

\* group_by_period alone, on every record list and resolution offered
InitGroup ==
    /\ pc = "group"
    /\ symbol = "aapl"
    /\ api_key = "KEY"
    /\ period \in Periods
    /\ start_date = DateStr(2024, 12, 27)
    /\ end_date = DateStr(2025, 1, 2)
    /\ reply = OkReply(<<>>)
    /\ all_rows = <<>>
    /\ function = [name |-> "", extra |-> <<>>]
    /\ requests = 0
    /\ filtered \in RowLists(GroupDates, PriceQuads)
    /\ grouped = <<>>
    /\ chart = NoChart
    /\ outcome = NoError
    /\ examined = 0
    /\ flash = NoFlash

SpecGroup == InitGroup /\ [][Group]_vars

\* fetch_stock_rows_from_alpha_vantage alone, on every reply offered
InitFetch ==
    /\ pc = "fetch"
    /\ symbol \in Symbols
    /\ api_key \in ApiKeys
    /\ period \in Periods
    /\ start_date = DateStr(2024, 12, 27)
    /\ end_date = DateStr(2025, 1, 2)
    /\ reply \in Replies
    /\ all_rows = <<>>
    /\ Idle

SpecFetch == InitFetch /\ [][Fetch]_vars

\* the assembly of the chart series alone, on every record list offered, in
\* every order
InitRender ==
    /\ pc = "render"
    /\ symbol = "aapl"
    /\ api_key = "KEY"
    /\ period \in {"daily", "weekly"}
    /\ start_date = DateStr(2024, 12, 27)
    /\ end_date = DateStr(2025, 1, 2)
    /\ reply = OkReply(<<>>)
    /\ all_rows = <<>>
    /\ function = [name |-> "", extra |-> <<>>]
    /\ requests = 0
    /\ filtered = <<>>
    /\ grouped \in RowLists(GroupDates, PriceQuads)
    /\ chart = NoChart
    /\ outcome = NoError
    /\ examined = 0
    /\ flash = NoFlash

SpecRender == InitRender /\ [][Render]_vars

----------------------------------------------------------------------------
(* The web handler: index *)

\* generate_chart_for_web as one call: the stages in order, the first
\* failure propagating to the caller
generate_chart_for_web(sym, p, s, e, key, r) ==
    LET f == fetch_stock_rows_from_alpha_vantage(sym, p, key, r)
        fl == filter_by_date(f.rows, s, e)
        g == group_by_period(fl.rows, p)
        run(err, rows, kept, n, agg, svg) ==
            [err |-> err, requests |-> f.requests, function |-> f.function,
             all_rows |-> rows, filtered |-> kept, examined |-> n,
             grouped |-> agg, chart |-> svg]
    IN IF f.err.exc # "none"
       THEN run(f.err, <<>>, <<>>, 0, <<>>, NoChart)
       ELSE IF fl.err.exc # "none"
       THEN run(fl.err, f.rows, <<>>, fl.examined, <<>>, NoChart)
       ELSE IF g.err.exc # "none"
       THEN run(g.err, f.rows, fl.rows, fl.examined, <<>>, NoChart)
       ELSE run(NoError, f.rows, fl.rows, fl.examined, g.rows, chart_series(g.rows))

\* str.strip() on a date field of the form
RECURSIVE lstrip(_)
lstrip(s) == IF s # <<>> /\ s[1] = Ascii.space THEN lstrip(Tail(s)) ELSE s

RECURSIVE rstrip(_)
rstrip(s) ==
    IF s # <<>> /\ s[Len(s)] = Ascii.space
    THEN rstrip(SubSeq(s, 1, Len(s) - 1))
    ELSE s

strip_date(s) == rstrip(lstrip(s))

\* flash(message, category); text is the str(e) the message interpolates
Flash(category, msg, text) == [category |-> category, msg |-> msg, text |-> text]

\* the except clauses of index, in their order
flash_for(e) ==
    CASE e.exc = "ValueError" ->
           Flash("error", "Invalid date format. Please use YYYY-MM-DD format.", "")
      [] e.exc = "StockSymbolNotFoundError" ->
           Flash("error", "Stock Symbol Not Found", e.msg)
      [] e.exc = "APIRateLimitError" ->
           Flash("error", "API Rate Limit Exceeded", e.msg)
      [] e.exc = "NoDataAvailableError" ->
           Flash("error", "No Data Available", e.msg)
      [] OTHER ->
           Flash("error", "An unexpected error occurred", e.msg)

\* the dates a form can post: empty, blank-padded, a date, a date that does
\* not exist, a date with a time
FormDates ==
    { <<>>,
      DateStr(2024, 12, 27),
      <<Ascii.space>> \o DateStr(2025, 1, 2) \o <<Ascii.space>>,
      DateStr(2025, 1, 2),
      DateStr(2025, 2, 30),
      DateTimeStr(2025, 1, 2, 10, 0, 0) }

\* A POST of the form to index; symbol, start_date and end_date hold the
\* form's fields as posted
InitWeb ==
    /\ pc = "post"
    /\ symbol \in Symbols
    /\ api_key \in ApiKeys
    /\ period \in {"daily", "weekly"}
    /\ start_date \in FormDates
    /\ end_date \in FormDates
    /\ reply \in RunReplies
    /\ all_rows = <<>>
    /\ Idle

\* index(): the POST branch, through to render_template
index ==
    /\ pc = "post"
    /\ LET sym == upper(strip(symbol))
           sd == strip_date(start_date)
           ed == strip_date(end_date)
           rejected(category, msg) ==
               /\ flash' = Flash(category, msg, "")
               /\ UNCHANGED <<requests, function, all_rows, filtered, examined,
                              grouped, chart, outcome>>
       IN IF sym = ""
          THEN rejected("error", "Please select or enter a stock symbol.")
          ELSE IF sd = <<>> \/ ed = <<>>
          THEN rejected("error", "Please provide both start and end dates.")
          ELSE IF StrpDate(sd) = NoDate \/ StrpDate(ed) = NoDate
          THEN /\ flash' = flash_for(Raise("ValueError", "strptime", <<>>))
               /\ UNCHANGED <<requests, function, all_rows, filtered, examined,
                              grouped, chart, outcome>>
          ELSE IF DtLess(StrpDate(ed), StrpDate(sd))
          THEN rejected("error", "End date cannot be before start date.")
          ELSE \E g \in { generate_chart_for_web(sym, period, sd, ed, api_key, reply) } :
                  /\ flash' = IF g.err.exc # "none"
                              THEN flash_for(g.err)
                              ELSE Flash("success", "Chart generated successfully!", "")
                  /\ requests' = requests + g.requests
                  /\ function' = g.function
                  /\ all_rows' = g.all_rows
                  /\ filtered' = g.filtered
                  /\ examined' = g.examined
                  /\ grouped' = g.grouped
                  /\ chart' = g.chart
                  /\ outcome' = g.err
    /\ pc' = "page"
    /\ UNCHANGED <<symbol, api_key, period, start_date, end_date, reply>>

SpecWeb == InitWeb /\ [][index]_vars

----------------------------------------------------------------------------
(* Reference notions the properties are stated with *)

\* the calendar day "YYYY-MM-DD" a date string starts with
DayOf(s) == SubSeq(s, 1, 10)

\* a bound that is a plain calendar date
PlainDate(s) == Len(s) = 10 /\ parse_date(s).ok

\* the instant a date string names: <<day number, second of the day>>
Instant(s) ==
    LET dt == parse_date(s)
    IN <<Ymd2Ord(dt.year, dt.month, dt.day),
         dt.hour * 3600 + dt.minute * 60 + dt.second>>

\* instant a is not after instant b
NotAfter(a, b) == a[1] < b[1] \/ (a[1] = b[1] /\ a[2] <= b[2])

Before(a, b) == NotAfter(a, b) /\ a # b

AllParse(rows) == \A i \in 1..Len(rows) : parse_date(rows[i].date).ok

Occurs(row, rows) == \E i \in 1..Len(rows) : rows[i] = row

\* filter_by_date has been applied to all_rows (a failed fetch leaves all_rows
\* empty, and the filter is the only stage after it that can fail on dates
\* that parse)
FilterActed == pc \in {"group", "render", "done"} \/ (pc = "failed" /\ all_rows # <<>>)

----------------------------------------------------------------------------
(* C1 *)

\* C1: filter_by_date is inclusive on both bounds: with plain YYYY-MM-DD bounds
\* start_date <= end_date, every input record whose calendar day equals
\* start_date or end_date is in the output, whether its date is a plain date or
\* carries a time of day.
C1_InclusiveOnBothBounds ==
    ( /\ FilterActed
      /\ PlainDate(start_date) /\ PlainDate(end_date)
      /\ NotAfter(Instant(start_date), Instant(end_date))
      /\ AllParse(all_rows) )
    => \A i \in 1..Len(all_rows) :
          DayOf(all_rows[i].date) \in {start_date, end_date}
          => Occurs(all_rows[i], filtered)

----------------------------------------------------------------------------
(* C2 *)

\* C2: whenever filter_by_date returns normally, the returned list is sorted
\* ascending by date (as strings and as instants), every returned record is an
\* input record, and every returned record's date lies within
\* [start_date, end_date].
C2_SortedWithinWindow ==
    pc = "group" =>
        /\ \A i, j \in 1..Len(filtered) :
              i < j => /\ StrLeq(filtered[i].date, filtered[j].date)
                       /\ NotAfter(Instant(filtered[i].date), Instant(filtered[j].date))
        /\ \A i \in 1..Len(filtered) :
              /\ Occurs(filtered[i], all_rows)
              /\ NotAfter(Instant(start_date), Instant(filtered[i].date))
              /\ NotAfter(Instant(filtered[i].date), Instant(end_date))

\* a normal return of at least two records from an input that was not in
\* order and held a record outside the window
C2_Witness ==
    /\ pc = "group"
    /\ Len(filtered) >= 2
    /\ Len(all_rows) > Len(filtered)
    /\ StrLess(all_rows[2].date, all_rows[1].date)
    /\ Occurs(all_rows[1], filtered) /\ Occurs(all_rows[2], filtered)

----------------------------------------------------------------------------
(* C3 *)

\* both bounds parse and start_date is later than end_date
StartAfterEnd ==
    /\ parse_date(start_date).ok /\ parse_date(end_date).ok
    /\ Before(Instant(end_date), Instant(start_date))

\* C3: whenever start_date parses later than end_date, filter_by_date fails
\* with the ValueError "Start date cannot be after end date" before any record
\* is examined, whatever the record list holds, and that failure is raised for
\* no other cause.
C3_InvalidRangeFirst ==
    pc # "filter" =>
        /\ StartAfterEnd <=> outcome.msg = "Start date cannot be after end date"
        /\ StartAfterEnd => /\ pc = "failed"
                            /\ outcome.exc = "ValueError"
                            /\ examined = 0
                            /\ filtered = <<>>

\* the range failure on a list of several records, one of which does not parse
C3_Witness ==
    /\ pc = "failed"
    /\ outcome.msg = "Start date cannot be after end date"
    /\ Len(all_rows) >= 2
    /\ ~AllParse(all_rows)
    /\ examined = 0

----------------------------------------------------------------------------
(* C4 *)

\* the record's calendar day lies in the window of plain dates
DayInWindow(s) == StrLeq(start_date, DayOf(s)) /\ StrLeq(DayOf(s), end_date)

\* C4: filter_by_date fails with NoDataAvailable exactly when no input record
\* lies in the window, and the failure for "the window matched nothing" differs
\* from the failure for "the provider returned a time series with no entries".
C4_NoDataIffWindowEmpty ==
    /\ ( /\ FilterActed
         /\ PlainDate(start_date) /\ PlainDate(end_date)
         /\ NotAfter(Instant(start_date), Instant(end_date))
         /\ AllParse(all_rows) )
       => ( (pc = "failed" /\ outcome.exc = "NoDataAvailableError")
            <=> ~\E i \in 1..Len(all_rows) : DayInWindow(all_rows[i].date) )
    /\ (pc = "failed" /\ outcome.exc = "NoDataAvailableError")
       => ( (all_rows = <<>>) <=> outcome.msg = "No data available for symbol" )

----------------------------------------------------------------------------
(* C5 *)

\* the input rows of the bucket an output record stands for
Members(g) ==
    { filtered[i] : i \in { k \in 1..Len(filtered) :
                              group_label(filtered[k], period) = g.date } }

\* the list in the opposite order
Reversed(s) == [i \in 1..Len(s) |-> s[Len(s) + 1 - i]]

\* C5: for weekly and monthly resolution every output record has the open of
\* the chronologically earliest member of its bucket, the close of the latest,
\* the maximum high and the minimum low of its members, whatever the order of
\* the input; records of a single calendar month aggregate monthly to exactly
\* one record.
C5_OhlcRollUp ==
    (pc = "render" /\ period \in {"weekly", "monthly"}) =>
        /\ \A i \in 1..Len(grouped) :
              LET g == grouped[i]
                  M == Members(g)
              IN /\ M # {}
                 /\ \A m \in M :
                       /\ (\A n \in M : NotAfter(Instant(m.date), Instant(n.date)))
                          => g.open = m.open
                       /\ (\A n \in M : NotAfter(Instant(n.date), Instant(m.date)))
                          => g.close = m.close
                       /\ m.high <= g.high
                       /\ g.low <= m.low
                 /\ \E m \in M : m.high = g.high
                 /\ \E m \in M : m.low = g.low
        /\ ( /\ period = "monthly"
             /\ filtered # <<>>
             /\ \A i, j \in 1..Len(filtered) :
                   SubSeq(filtered[i].date, 1, 7) = SubSeq(filtered[j].date, 1, 7) )
           => Len(grouped) = 1
        /\ group_by_period(Reversed(filtered), period).rows = grouped

\* three records of one bucket supplied latest first, whose open, close, high
\* and low come from different members
C5_Witness ==
    /\ pc = "render"
    /\ period \in {"weekly", "monthly"}
    /\ Len(filtered) = 3
    /\ Len(grouped) = 1
    /\ StrLess(filtered[3].date, filtered[2].date)
    /\ StrLess(filtered[2].date, filtered[1].date)
    /\ grouped[1].open = filtered[3].open
    /\ grouped[1].open # filtered[1].open
    /\ grouped[1].close = filtered[1].close
    /\ grouped[1].high = filtered[2].high
    /\ grouped[1].high # filtered[3].high

----------------------------------------------------------------------------
(* C6 *)

\* day number of the Thursday of the ISO week (Monday to Sunday) of a day
ThursdayOf(ord) == ord - ((ord + 6) % 7) + 3

\* ISO-8601: the week belongs to the year its Thursday falls in and is numbered
\* by the count of that year's Thursdays up to it
IsoYearWeek(s) ==
    LET dt == parse_date(s)
        thu == ThursdayOf(Ymd2Ord(dt.year, dt.month, dt.day))
        y == CHOOSE yy \in (dt.year - 1)..(dt.year + 1) :
                Ymd2Ord(yy, 1, 1) <= thu /\ thu <= Ymd2Ord(yy, 12, 31)
    IN <<y, ((thu - Ymd2Ord(y, 1, 1)) \div 7) + 1>>

\* "{ISO year}-W{week, two digits}"
IsoLabel(yw) ==
    FmtInt(yw[1]) \o <<Ascii.dash, Ascii.W>>
    \o <<Ascii.zero + (yw[2] \div 10), Ascii.zero + (yw[2] % 10)>>

\* C6: with weekly resolution two records fall into the same bucket if and
\* only if their dates have the same ISO-8601 (year, week) pair, and the
\* bucket's label is "{ISO year}-W{week zero-padded to 2 digits}".
C6_IsoWeekBuckets ==
    (pc = "render" /\ period = "weekly") =>
        /\ \A i \in 1..Len(filtered) :
              \E k \in 1..Len(grouped) :
                  /\ grouped[k].date = IsoLabel(IsoYearWeek(filtered[i].date))
                  /\ \A l \in 1..Len(grouped) : grouped[l].date = grouped[k].date => l = k
                  /\ filtered[i].high <= grouped[k].high
                  /\ grouped[k].low <= filtered[i].low
        /\ \A k \in 1..Len(grouped) :
              \E i \in 1..Len(filtered) :
                  /\ grouped[k].date = IsoLabel(IsoYearWeek(filtered[i].date))
                  /\ grouped[k].high = filtered[i].high
        /\ Len(grouped) =
              Cardinality({ IsoYearWeek(filtered[i].date) : i \in 1..Len(filtered) })

\* 2024-12-30 and 2025-01-02 in one bucket labelled 2025-W01, beside a record
\* of another week
C6_Witness ==
    /\ pc = "render"
    /\ period = "weekly"
    /\ \E i, j \in 1..Len(filtered) :
          /\ filtered[i].date = DateStr(2024, 12, 30)
          /\ filtered[j].date = DateStr(2025, 1, 2)
    /\ Len(filtered) = 3
    /\ Len(grouped) = 2
    /\ grouped[2].date = <<50, 48, 50, 53, 45, 87, 48, 49>>

----------------------------------------------------------------------------
(* C7 *)

\* every member of bucket a is earlier than every member of bucket b
AllBefore(a, b) ==
    \A m \in Members(a) : \A n \in Members(b) : Before(Instant(m.date), Instant(n.date))

\* C7: for every resolution the output of group_by_period is sorted ascending
\* by its label string, no two output records share a label in the weekly and
\* monthly case, and the order is chronological: a bucket whose members all
\* precede those of another comes first.
C7_LabelOrderIsChronological ==
    pc = "render" =>
        /\ \A i, j \in 1..Len(grouped) :
              i < j => StrLeq(grouped[i].date, grouped[j].date)
        /\ period \in {"weekly", "monthly"}
           => \A i, j \in 1..Len(grouped) :
                 i # j => grouped[i].date # grouped[j].date
        /\ \A i, j \in 1..Len(grouped) :
              AllBefore(grouped[i], grouped[j]) => i < j

\* two weekly buckets across the year end, built from records supplied latest
\* first
C7_Witness ==
    /\ pc = "render"
    /\ period = "weekly"
    /\ Len(grouped) = 2
    /\ Len(filtered) = 3
    /\ group_label(filtered[1], period) = grouped[2].date
    /\ group_label(filtered[3], period) = grouped[1].date
    /\ AllBefore(grouped[1], grouped[2])

----------------------------------------------------------------------------
(* C8 *)

KnownPeriods == {"intraday", "daily", "weekly", "monthly"}

\* C8: for every resolution string that is not one of intraday, daily, weekly,
\* monthly, both stages that read it behave as for "daily": the provider
\* function requested is the daily one and group_by_period returns the records
\* passed through sorted by date.
C8_UnrecognizedMeansDaily ==
    period \notin KnownPeriods =>
        /\ requests > 0 => function.name = "TIME_SERIES_DAILY"
        /\ pc \in {"render", "done"} => grouped = group_by_period(filtered, "daily").rows

----------------------------------------------------------------------------
(* C9 *)

\* the provider answered with a JSON body
Answered == pc # "fetch" /\ requests = 1 /\ reply.transport = "ok" /\ reply.json

\* no key of the body contains "Time Series"
NoSeriesKey(data) ==
    \A i \in 1..Len(data) :
        \A k \in 1..(Len(data[i].key) - 1) :
            ~(data[i].key[k] = "Time" /\ data[i].key[k + 1] = "Series")

\* the text of the body's field `key`, <<>> when it has none
TextOf(data, key) ==
    IF \E i \in 1..Len(data) : data[i].key = key
    THEN data[CHOOSE i \in 1..Len(data) : data[i].key = key].text
    ELSE <<>>

\* the text says "Invalid API call" or "Invalid stock symbol"
MentionsInvalidSymbol(text) ==
    \E k \in 1..(Len(text) - 2) :
        /\ text[k] = "Invalid"
        /\ \/ (text[k + 1] = "API" /\ text[k + 2] = "call")
           \/ (text[k + 1] = "stock" /\ text[k + 2] = "symbol")

\* C9: when the response has no time-series key and carries an "Error Message"
\* whose text has the invalid-symbol phrasing ("Invalid API call" or "Invalid
\* stock symbol"), the fetch fails with StockSymbolNotFoundError; an "Error
\* Message" without that phrasing fails with the generic RuntimeError
\* "API error".
C9_ErrorMessageClassified ==
    ( Answered /\ NoSeriesKey(reply.data) /\ HasKey(reply.data, KeyError) ) =>
        /\ pc = "failed"
        /\ MentionsInvalidSymbol(TextOf(reply.data, KeyError))
           => outcome.exc = "StockSymbolNotFoundError"
        /\ ~MentionsInvalidSymbol(TextOf(reply.data, KeyError))
           => (outcome.exc = "RuntimeError" /\ outcome.msg = "API error")

\* an "Invalid API call" error message, in a body that also holds a rate-limit
\* note, reported as the symbol not being found
C9_Witness ==
    /\ Answered
    /\ pc = "failed"
    /\ outcome.exc = "StockSymbolNotFoundError"
    /\ Len(reply.data) = 2
    /\ TextOf(reply.data, KeyError) = <<"Invalid", "API", "call", ".", "Please", "retry">>
    /\ TextOf(reply.data, KeyNote) # <<>>

----------------------------------------------------------------------------
(* C10 *)

\* the text speaks of the call frequency or of a rate limit, in any case
MentionsRateLimit(text) ==
    \/ \E k \in 1..(Len(text) - 2) :
          text[k] = "API" /\ text[k + 1] = "call" /\ text[k + 2] = "frequency"
    \/ \E k \in 1..(Len(text) - 1) :
          /\ text[k] \in {"rate", "Rate", "RATE"}
          /\ text[k + 1] \in {"limit", "Limit", "LIMIT"}

\* the body is one of the provider's notices and says the limit was reached
CarriesRateLimitNotice(data) ==
    /\ NoSeriesKey(data)
    /\ ~HasKey(data, KeyError)
    /\ \/ MentionsRateLimit(TextOf(data, KeyNote))
       \/ MentionsRateLimit(TextOf(data, KeyInfo))

\* the body has none of the keys the classification knows
UnknownShape(data) ==
    /\ NoSeriesKey(data)
    /\ ~HasKey(data, KeyError) /\ ~HasKey(data, KeyNote) /\ ~HasKey(data, KeyInfo)

\* C10: every provider response that carries a rate/frequency-limit notice is
\* classified as APIRateLimitError, and every response whose top-level shape
\* matches none of the known cases is classified as the RuntimeError
\* "Unexpected response format" whose message lists the top-level keys
\* received.
C10_RateLimitAndUnexpected ==
    Answered =>
        /\ CarriesRateLimitNotice(reply.data)
           => (pc = "failed" /\ outcome.exc = "APIRateLimitError")
        /\ UnknownShape(reply.data)
           => /\ pc = "failed"
              /\ outcome.exc = "RuntimeError"
              /\ outcome.msg = "Unexpected response format. Received keys"
              /\ outcome.detail = [i \in 1..Len(reply.data) |-> reply.data[i].key]

----------------------------------------------------------------------------
(* C11 *)

\* the symbol is empty or holds only white space
BlankSymbol == symbol \in {"", " "}

\* C11: fetch_stock_rows_from_alpha_vantage makes no network call when the
\* symbol is empty or only white space (ValueError "Stock symbol cannot be
\* empty") or when the credential is not configured (ValueError
\* "ALPHA_VANTAGE_API_KEY environment variable is not set"): both checks are
\* done before the request, and the missing credential is no failure before
\* the fetch is made.
C11_NoRequestOnLocalFailure ==
    /\ pc = "fetch" => (outcome.exc = "none" /\ requests = 0)
    /\ (pc # "fetch" /\ BlankSymbol)
       => /\ pc = "failed"
          /\ requests = 0
          /\ outcome.exc = "ValueError"
          /\ outcome.msg = "Stock symbol cannot be empty"
    /\ (pc # "fetch" /\ ~BlankSymbol /\ api_key = "")
       => /\ pc = "failed"
          /\ requests = 0
          /\ outcome.exc = "ValueError"
          /\ outcome.msg = "ALPHA_VANTAGE_API_KEY environment variable is not set"
    /\ (pc # "fetch" /\ ~BlankSymbol /\ api_key # "") => requests = 1

\* the credential is missing, the symbol is good and the provider would have
\* answered with a time series: the fetch failed without any request
C11_Witness ==
    /\ pc = "failed"
    /\ requests = 0
    /\ api_key = ""
    /\ symbol = " aapl "
    /\ reply.transport = "ok" /\ reply.json
    /\ Len(reply.data) = 1 /\ reply.data[1].series = SeriesGood
    /\ outcome.msg = "ALPHA_VANTAGE_API_KEY environment variable is not set"

----------------------------------------------------------------------------
(* C12 *)

\* the field of a record a series name stands for
FieldOf(row, name) ==
    CASE name = "Open" -> row.open
      [] name = "High" -> row.high
      [] name = "Low" -> row.low
      [] name = "Close" -> row.close

\* C12: the chart series assembled from the aggregated records have x_labels
\* equal to the records' labels in the same order (no re-sort) and exactly four
\* series named Open, High, Low, Close in that order, each as long as
\* x_labels, the i-th value of each being that field of the i-th record.
C12_SeriesFollowRecords ==
    pc = "done" =>
        /\ Len(chart.x_labels) = Len(grouped)
        /\ \A i \in 1..Len(grouped) : chart.x_labels[i] = grouped[i].date
        /\ Len(chart.series) = 4
        /\ \A k \in 1..4 :
              /\ chart.series[k].label = <<"Open", "High", "Low", "Close">>[k]
              /\ Len(chart.series[k].values) = Len(chart.x_labels)
              /\ \A i \in 1..Len(grouped) :
                    chart.series[k].values[i] = FieldOf(grouped[i], chart.series[k].label)

\* series assembled from three records that are not in label order and whose
\* prices differ
C12_Witness ==
    /\ pc = "done"
    /\ Len(grouped) = 3
    /\ StrLess(grouped[2].date, grouped[1].date)
    /\ grouped[1].high # grouped[2].high
    /\ chart.x_labels[1] = grouped[1].date
    /\ chart.series[2].values[2] = grouped[2].high

----------------------------------------------------------------------------
(* C13 *)

\* what each stage's function yields in the current state
FetchResult == fetch_stock_rows_from_alpha_vantage(symbol, period, api_key, reply)
FilterResult == filter_by_date(all_rows, start_date, end_date)
GroupResult == group_by_period(filtered, period)

\* a step of the run: the stages follow one another in the order fetch,
\* filter, aggregate, assemble; a stage touches only its own result; a stage
\* that fails ends the run with its own failure, and one that succeeds hands
\* over to the next; nothing follows a failure or the end
C13_Step ==
    /\ pc \notin {"failed", "done"}
    /\ pc = "fetch"
       => /\ UNCHANGED <<filtered, grouped, chart, examined>>
          /\ requests' <= requests + 1
          /\ IF FetchResult.err.exc # "none"
             THEN /\ pc' = "failed"
                  /\ outcome'.exc = FetchResult.err.exc
                  /\ outcome'.msg = FetchResult.err.msg
             ELSE pc' = "filter" /\ outcome'.exc = "none"
    /\ pc = "filter"
       => /\ UNCHANGED <<requests, function, all_rows, grouped, chart>>
          /\ IF FilterResult.err.exc # "none"
             THEN /\ pc' = "failed"
                  /\ outcome'.exc = FilterResult.err.exc
                  /\ outcome'.msg = FilterResult.err.msg
             ELSE pc' = "group" /\ outcome'.exc = "none"
    /\ pc = "group"
       => /\ UNCHANGED <<requests, function, all_rows, filtered, chart>>
          /\ IF GroupResult.err.exc # "none"
             THEN /\ pc' = "failed"
                  /\ outcome'.exc = GroupResult.err.exc
                  /\ outcome'.msg = GroupResult.err.msg
             ELSE pc' = "render" /\ outcome'.exc = "none"
    /\ pc = "render"
       => /\ UNCHANGED <<requests, function, all_rows, filtered, grouped, outcome>>
          /\ pc' = "done"

\* what holds of every state of a run: at most one request; a failed run has
\* a failure and no chart; a run that has not failed has no failure; a stage's
\* result exists only once the stage has run
C13_State ==
    /\ requests <= 1
    /\ pc = "failed" => (outcome.exc # "none" /\ chart = NoChart /\ grouped = <<>>)
    /\ pc # "failed" => outcome.exc = "none"
    /\ pc = "fetch" => (requests = 0 /\ all_rows = <<>>)
    /\ pc \in {"fetch", "filter"} => filtered = <<>>
    /\ pc \in {"fetch", "filter", "group"} => grouped = <<>>
    /\ pc # "done" => chart = NoChart
    /\ pc \in {"filter", "group", "render", "done"} => requests = 1

\* C13: one run executes the stages strictly in the order fetch, filter,
\* aggregate, assemble and issues at most one provider request; when a stage
\* fails no later stage executes, nothing is retried, and the run ends with
\* that stage's own failure (never a success value, never another kind).
C13_StagesInOrderFailFast == [][C13_Step]_vars /\ []C13_State

\* the fetch succeeded with its one request, the filter failed with its own
\* failure, and neither the aggregation nor the chart exists
C13_Witness ==
    /\ pc = "failed"
    /\ requests = 1
    /\ all_rows # <<>>
    /\ outcome.exc = "NoDataAvailableError"
    /\ outcome.msg = "No data available between"
    /\ grouped = <<>>
    /\ chart = NoChart

----------------------------------------------------------------------------
(* C14 *)

\* the form's dates as index reads them
PostedStart == strip_date(start_date)
PostedEnd == strip_date(end_date)

\* one of the posted dates does not parse as YYYY-MM-DD
PostedDateUnparsable ==
    StrpDate(PostedStart) = NoDate \/ StrpDate(PostedEnd) = NoDate

\* the pipeline was called and raised
PipelineFailed == pc = "page" /\ outcome.exc # "none"

InvalidDateFlash == "Invalid date format. Please use YYYY-MM-DD format."

\* C14: in index, the message 'Invalid date format' is flashed only when
\* start_date or end_date fails to parse as YYYY-MM-DD; a failure raised
\* inside the pipeline after the dates were validated is flashed under a
\* message for its own kind, carrying the failure's own text, and the page is
\* rendered with an error message.
C14_DateMessageOnlyForDates ==
    pc = "page" =>
        /\ flash.msg = InvalidDateFlash => PostedDateUnparsable
        /\ outcome.exc # "none" =>
               /\ flash.category = "error"
               /\ flash.msg # InvalidDateFlash
               /\ flash.text = outcome.msg
               /\ outcome.exc = "StockSymbolNotFoundError"
                      => flash.msg = "Stock Symbol Not Found"
               /\ outcome.exc = "APIRateLimitError"
                      => flash.msg = "API Rate Limit Exceeded"
               /\ outcome.exc = "NoDataAvailableError"
                      => flash.msg = "No Data Available"

\* what does hold: every pipeline failure ends with the page rendered with an
\* error message, and every failure other than a ValueError is flashed under
\* its own kind with its own text
C14_PipelineFailureIsReported ==
    PipelineFailed =>
        /\ flash.category = "error"
        /\ outcome.exc # "ValueError"
               => (flash.msg # InvalidDateFlash /\ flash.text = outcome.msg)

\* both dates parsed, the pipeline failed on the missing credential, and the
\* page says the date format is invalid
C14_MissingKeyShownAsDateError ==
    /\ PipelineFailed
    /\ ~PostedDateUnparsable
    /\ outcome.exc = "ValueError"
    /\ outcome.msg = "ALPHA_VANTAGE_API_KEY environment variable is not set"
    /\ flash.msg = InvalidDateFlash

----------------------------------------------------------------------------
(* C15 *)

\* low <= min(open, close) and max(open, close) <= high
PriceRecordOk(r) ==
    /\ r.low <= r.open /\ r.low <= r.close
    /\ r.open <= r.high /\ r.close <= r.high

\* C15: group_by_period preserves the price record invariant: if every input
\* record has low <= min(open, close) and max(open, close) <= high, so has
\* every output record, for every resolution.
C15_PriceInvariantPreserved ==
    (pc = "render" /\ \A i \in 1..Len(filtered) : PriceRecordOk(filtered[i]))
        => \A i \in 1..Len(grouped) : PriceRecordOk(grouped[i])

\* several records merged into one summary whose close lies above the high
\* of the record its open came from
C15_Witness ==
    /\ pc = "render"
    /\ period \in {"weekly", "monthly"}
    /\ Len(filtered) >= 2
    /\ Len(grouped) = 1
    /\ \A i \in 1..Len(filtered) : PriceRecordOk(filtered[i])
    /\ \E i \in 1..Len(filtered) :
           /\ filtered[i].open = grouped[1].open
           /\ filtered[i].high < grouped[1].close
           /\ \A j \in 1..Len(filtered) :
                  j # i => StrLess(filtered[i].date, filtered[j].date)

----------------------------------------------------------------------------
(* C16 *)

\* the input records that fall in the bucket an output record stands for
BucketOf(k) ==
    { i \in 1..Len(filtered) : group_label(filtered[i], period) = grouped[k].date }

\* how many times record r occurs in the list rows
Occurrences(rows, r) == Cardinality({ i \in 1..Len(rows) : rows[i] = r })

\* every input record is in exactly one bucket, every output record stands
\* for a non-empty bucket, and the output is no longer than the input and
\* not empty unless the input is
C16_Partition ==
    /\ \A i \in 1..Len(filtered) :
           Cardinality({ k \in 1..Len(grouped) : i \in BucketOf(k) }) = 1
    /\ \A k \in 1..Len(grouped) : BucketOf(k) # {}
    /\ Len(grouped) <= Len(filtered)
    /\ filtered # <<>> => Len(grouped) >= 1

\* the output holds the same records as the input, each as often
C16_Permutation ==
    /\ Len(grouped) = Len(filtered)
    /\ \A i \in 1..Len(filtered) :
           Occurrences(grouped, filtered[i]) = Occurrences(filtered, filtered[i])

C16_State ==
    pc = "render" =>
        /\ period \in {"weekly", "monthly"} => C16_Partition
        /\ period \in {"intraday", "daily"} => C16_Permutation

\* C16: aggregation partitions its input: for weekly and monthly resolution
\* every input record is a member of exactly one bucket and every output
\* record corresponds to a non-empty bucket, so there is at least one output
\* record for a non-empty input and never more than there are input records;
\* for intraday and daily resolution the output is a permutation of the
\* input; and the input list itself is left unmodified.
C16_AggregationPartitionsInput == []C16_State /\ [][filtered' = filtered]_vars

\* three records given out of date order, two of them sharing a week, came
\* out as two weekly summaries, and the input list is still out of order
C16_Witness ==
    /\ pc = "render"
    /\ period = "weekly"
    /\ Len(filtered) = 3
    /\ Len(grouped) = 2
    /\ \E k \in 1..2 : Cardinality(BucketOf(k)) = 2
    /\ filtered # SortByDate(filtered)

====
